---- MODULE Spec2Model ----
(***************************************************************************)
(* MapViz-AI: the map view (MapPreview), the annotation store held by App, *)
(* the view-transform requests the map view hands to the zoom behaviour,   *)
(* the search box and the Sidebar's dataset analysis and file upload.      *)
(*                                                                         *)
(* Specifications.  Spec runs the map view: the topology fetch, resizes,   *)
(* animation frames, the zoom and reset buttons, clicks on the map and the *)
(* placement-mode toggle.  AnnotationSpec runs the life of annotations:    *)
(* placement with the clock that names them, editing, deleting and the    *)
(* mouse events on them; no resize happens there, so the view stays where  *)
(* it starts.  StoreSpec                                                   *)
(* drives App's four annotation handlers directly, with any identifier.    *)
(* SearchSpec runs the search box over any fetched feature list, DataSpec  *)
(* the dataset and what the Sidebar derives from it, UploadSpec the file   *)
(* upload, and LoadSpec the topology fetch with the fairness that the      *)
(* request settles.  StyleSpec runs the style tab and the suggestion cards *)
(* over any map style and builds the colour scale of the map from it,      *)
(* BatchSpec hands several store operations to the handlers of one render  *)
(* of App, and PromptSpec runs the prompt textarea of the newer Sidebar    *)
(* with its examples and its autocomplete.                                 *)
(* types.ts, which declares MapStyle, PALETTES and DEFAULT_MAP_STYLE, is   *)
(* not among the sources; the palettes and the default style are written   *)
(* from what the importing code shows of them.                             *)
(* Selecting a search result, which focuses like a click on a feature, is  *)
(* an event of SearchSpec and LoadSpec; the other events left out of Spec  *)
(* write none of the variables its events read except the annotation list. *)
(*                                                                         *)
(* Numbers.  The program computes in floating point; the model keeps the   *)
(* scale k in hundredths (k = 1 is 100, k = 8 is 800), the translation and *)
(* annotation coordinates in hundredths of a pixel, and sizes, bounding    *)
(* boxes and pointer positions in whole pixels.  Divisions round down.     *)
(* The values of a dataset are integers, so Math.floor of their mean is    *)
(* the integer division of the sum by the count.                           *)
(*                                                                         *)
(* Inputs.  The ResizeObserver reports positive sizes and the path         *)
(* generator finite bounding boxes with x0 <= x1 and y0 <= y1; a box may   *)
(* have no width and no height.  The zoom behaviour is created by an       *)
(* effect that depends on the dimensions alone and needs the svg, which is *)
(* rendered once the fetch has settled: it is installed by the first       *)
(* resize after that.  Pan and wheel gestures of the zoom behaviour are    *)
(* not events of the model.                                                *)
(*                                                                         *)
(* Animation.  selection.transition() schedules a transition that starts   *)
(* on the next animation frame; on that frame the running transition of    *)
(* the element first receives its own tick and is then interrupted by the  *)
(* starting one.  A transition is drawn in AnimFrames frames, the last of  *)
(* which shows its target exactly.                                         *)
(***************************************************************************)
EXTENDS Integers, Sequences, FiniteSets, TLC

VARIABLES
  loading,              \* useState(true): the topology fetch has not settled
  geoData,              \* the feature list (a set of feature ids)
  dimensions,           \* {width, height} last reported by the ResizeObserver
  zoomBehavior,         \* zoomBehavior.current: FALSE is null, TRUE is installed
  transform,            \* the zoom transform of the svg (and the transform state)
  pending,              \* the transition scheduled by the latest request, not started
  active,               \* the running transition
  issued,               \* number of transitions scheduled so far
  completed,            \* the transition that last ran to its end
  selectedFeatureId,    \* useState<string | null>(null)
  isAddingAnnotation,   \* App: annotation-placement mode
  annotations,          \* App: the annotation collection, in order
  editingAnnotationId,  \* the annotation whose textarea is open
  now,                  \* the value Date.now() returns
  history,              \* the store operations applied, in order (StoreSpec)
  topologyFetch,        \* fetchTopology(): calls issued and how the call ended
  searchQuery,          \* useState(''): the text of the search box
  searchResults,        \* useState<Feature[]>([])
  isSearchActive,       \* useState(false): the dropdown is open
  draggingAnnotationId, \* useState<string | null>(null)
  pointer,              \* position of the last mouse event, in pixels
  mapData,              \* the lifted dataset (MapDataState | null)
  activeTab,            \* Sidebar: the tab shown
  insights,             \* Sidebar: useState<Insight[]>([])
  smartSuggestions,     \* Sidebar: useState<Suggestion[]>([])
  dataHealth,           \* Sidebar: useState<'good' | 'warning'>('good')
  uploadedFile,         \* Sidebar: useState<File | null>(null)
  uploadError,          \* Sidebar: useState<string | null>(null)
  mapStyle,             \* App: useState<MapStyle>(DEFAULT_MAP_STYLE)
  rendered,             \* the annotations of the render whose handlers are in use
  dispatched,           \* the store operations those handlers were called with
  prompt,               \* Sidebar: useState(''): the prompt text
  isFocused,            \* Sidebar: useState(false)
  autocompleteSuggestions, \* Sidebar: useState<string[]>([])
  promptHasFocus,       \* the textarea #map-prompt has the keyboard focus
  blurTimeouts          \* setTimeout callbacks of onBlur that have not run yet

vars == << loading, geoData, dimensions, zoomBehavior, transform, pending, active,
           issued, completed, selectedFeatureId, isAddingAnnotation, annotations,
           editingAnnotationId, now, history, topologyFetch, searchQuery,
           searchResults, isSearchActive, draggingAnnotationId, pointer, mapData,
           activeTab, insights, smartSuggestions, dataHealth, uploadedFile,
           uploadError, mapStyle, rendered, dispatched, prompt, isFocused,
           autocompleteSuggestions, promptHasFocus, blurTimeouts >>

viewVars == << transform, pending, active, issued, completed >>
searchVars == << searchQuery, searchResults, isSearchActive >>
dragVars == << draggingAnnotationId, pointer >>
dataVars == << mapData, activeTab, insights, smartSuggestions, dataHealth >>
uploadVars == << uploadedFile, uploadError >>
styleVars == << mapStyle >>
renderVars == << rendered, dispatched >>
promptVars == << prompt, isFocused, autocompleteSuggestions, promptHasFocus, blurTimeouts >>
sideVars == << styleVars, renderVars, promptVars >>
panelVars == << searchVars, dragVars, dataVars, uploadVars, sideVars >>

----------------------------------------------------------------------------
(* Bounds of the model *)

MaxRequests == 2        \* transitions scheduled in one run
AnimFrames == 2         \* frames drawn per transition
MaxPlaced == 1          \* annotations on the map in one run of Spec
MaxAnnotations == 2     \* annotations on the map in one run of AnnotationSpec
MaxClock == 1           \* latest millisecond the clock shows in one run
MaxHistory == 3         \* store operations applied in one run of StoreSpec
MaxFeatures == 6        \* features of a fetched topology in one run of SearchSpec
MaxEntries == 3         \* entries of a dataset that are chosen one by one
MaxBatch == 2           \* store operations dispatched to the handlers of one render
MaxTail == 3            \* characters of the word being typed at the end of the prompt
MaxTimeouts == 2        \* timers of onBlur that are waiting to run

----------------------------------------------------------------------------
(* Program constants *)

MinScale == 100         \* scaleExtent([1, 8]) and Math.max(1, ...)
MaxScale == 800         \* scaleExtent([1, 8]) and Math.min(8, ...)
ZoomInFactor == 14      \* handleZoom(1.4), in tenths
ZoomOutFactor == 7      \* handleZoom(0.7), in tenths
FitNumerator == 90      \* 0.9 in focusOnFeature, in hundredths
MaxResults == 5         \* results.slice(0, 5)
MinRegions == 20        \* values.length < 20
WideRange == 1000       \* range > 1000
ManyRegions == 50       \* values.length > 50
MinClasses == 3         \* the classes slider: min="3"
MaxClasses == 9         \* the classes slider: max="9"
MaxLength == 500        \* maxLength = 500
MaxSuggestions == 3     \* .slice(0, 3) of the autocomplete matches

NoFeature == "null"
NoAnnotation == "null"
NewAnnotationText == "New Annotation"
NoData == [metric |-> "null", unit |-> "null", values |-> << >>]
NoFile == [name |-> << >>, type |-> "null"]
NoError == "null"

Features == {"f1", "f2", "f3"}

\* Text is a sequence of characters.  Display names of features:
NameUni == << "U", "n", "i" >>
NameRun == << "r", "U", "N" >>
NameNiu == << "N", "i", "u" >>
\* the names of the features of the topologies of SearchSpec
Names == { NameUni, NameNiu }

\* the features of the fetched topology, in the order of the document; '010'
\* is filtered out after the fetch
WorldTopology ==
  << [id |-> "f1", name |-> NameUni], [id |-> "f2", name |-> NameRun],
     [id |-> "010", name |-> NameNiu], [id |-> "f3", name |-> NameNiu] >>

\* a topology whose features have the given names, in that order
TopologyOf(names) ==
  [i \in 1..Len(names) |-> [id |-> "f" \o ToString(i), name |-> names[i]]]

\* the topologies the endpoint may return in a run of SearchSpec
Topologies ==
  { TopologyOf(names) : names \in UNION { [1..n -> Names] : n \in 0..MaxFeatures } }

\* the identifiers of a feature list
FeatureIds(list) == { list[i].id : i \in 1..Len(list) }

\* pathGenerator.bounds(feature): [[x0, y0], [x1, y1]] in pixels.  f1 is an
\* ordinary country, f2 a degenerate zero-size box, f3 a box wider than any viewport.
BoundsOf(f) ==
  CASE f = "f1" -> [x0 |-> 100, y0 |-> 100, x1 |-> 200, y1 |-> 180]
    [] f = "f2" -> [x0 |-> 300, y0 |-> 240, x1 |-> 300, y1 |-> 240]
    [] OTHER    -> [x0 |-> 0,   y0 |-> 0,   x1 |-> 1600, y1 |-> 400]

\* contentRect sizes the ResizeObserver reports
Viewports == { [width |-> 800, height |-> 600], [width |-> 400, height |-> 300] }

InitialDimensions == [width |-> 800, height |-> 600]

\* pointer positions of a click on the map, in pixels from the svg's corner
ClickPoints == { [px |-> 100, py |-> 50] }

\* A dataset's values are listed in the order of Object.values(data.values); the
\* key of an entry is its position.  The datasets that can be loaded: up to
\* MaxEntries entries chosen one by one, followed by a run of entries of value 1.
EntryValues == { -1, 0, 1, 1001 }
PadSizes == { 0, 17, 18, 47, 48 }
Metrics == { "Digital Index", "GDP" }
Padding(k) == [i \in 1..k |-> 1]
Datasets ==
  { [metric |-> m, unit |-> "%", values |-> e \o Padding(k)] :
      m \in Metrics,
      e \in UNION { [1..n -> EntryValues] : n \in 0..MaxEntries },
      k \in PadSizes }

Tabs == { "prompt", "upload", "style", "text", "analysis" }

\* A file is its name, as the parts file.name.split('.') gives, and its MIME type.
ExtCsv == << "c", "s", "v" >>
ExtJson == << "j", "s", "o", "n" >>
ExtXlsx == << "x", "l", "s", "x" >>
ExtXls == << "x", "l", "s" >>
ExtTxt == << "t", "x", "t" >>
FileNames ==
  { << << "d" >>, ExtCsv >>,                    \* d.csv
    << << "d" >>, << "C", "S", "V" >> >>,        \* d.CSV
    << << "d" >>, ExtTxt >>,                    \* d.txt
    << << "d" >>, ExtJson, ExtTxt >>,           \* d.json.txt
    << << "d" >>, << >> >>,                     \* d.
    << << "d" >> >>,                            \* d
    << ExtXls >> }                              \* xls
FileTypes == { "text/csv", "application/json", "application/vnd.ms-excel",
               "application/vnd.openxmlformats-officedocument.spreadsheetml.sheet",
               "text/plain", "" }
Files == { [name |-> n, type |-> t] : n \in FileNames, t \in FileTypes }

UnsupportedMessage == "Unsupported file type. Please use CSV, Excel, or JSON."

\* texts typed into the search box
Queries == { << >>, << "u" >>, << "u", "n" >>, << "U", "N" >>, << "n", "I" >>,
             << "n", "u" >>, << "i", "u" >> }

\* pointer positions of the mouse events on an annotation
PointerPositions == { [px |-> 100, py |-> 50], [px |-> 300, py |-> 200] }

\* texts typed into an annotation's textarea
Texts == { "A", "B" }

----------------------------------------------------------------------------
(* Arithmetic helpers *)

Min(a, b) == IF a <= b THEN a ELSE b
Max(a, b) == IF a >= b THEN a ELSE b

----------------------------------------------------------------------------
(* View transform *)

Identity == [k |-> 100, x |-> 0, y |-> 0]

NoReq == [op |-> "none", factor |-> 0, feature |-> NoFeature, to |-> Identity,
          extent |-> InitialDimensions, id |-> 0]

NoAnim == [op |-> "none", feature |-> NoFeature, from |-> Identity, to |-> Identity,
           frame |-> 0, id |-> 0]

\* FocusScale without the clamp to [1, 8]
FocusScaleUnclamped(b, d) ==
  LET dx == b.x1 - b.x0
      dy == b.y1 - b.y0
  IN IF dx = 0 /\ dy = 0 THEN MaxScale + 1
     ELSE IF dx * d.height >= dy * d.width THEN (FitNumerator * d.width) \div dx
          ELSE (FitNumerator * d.height) \div dy

\* Math.max(1, Math.min(8, 0.9 / Math.max(dx / width, dy / height))).
\* 0.9 / 0 is Infinity, which Math.min(8, .) brings to 8.
FocusScale(b, d) ==
  LET dx == b.x1 - b.x0
      dy == b.y1 - b.y0
      \* Math.max(dx / width, dy / height) is dx / width
      xIsMax == dx * d.height >= dy * d.width
      raw == IF dx = 0 /\ dy = 0 THEN MaxScale + 1
             ELSE IF xIsMax THEN (FitNumerator * d.width) \div dx
                  ELSE (FitNumerator * d.height) \div dy
  IN Max(MinScale, Min(MaxScale, raw))

\* the focus transform that brings the box's first corner to the viewport's centre
FocusTransformOnCorner(f, d) ==
  LET b == BoundsOf(f)
      scale == FocusScale(b, d)
  IN [k |-> scale,
      x |-> 50 * d.width  - scale * b.x0,
      y |-> 50 * d.height - scale * b.y0]

\* d3.zoomIdentity.translate(width/2 - scale*x, height/2 - scale*y).scale(scale)
FocusTransform(f, d) ==
  LET b == BoundsOf(f)
      scale == FocusScale(b, d)
  IN [k |-> scale,
      x |-> 50 * d.width  - (scale * (b.x0 + b.x1)) \div 2,
      y |-> 50 * d.height - (scale * (b.y0 + b.y1)) \div 2]

\* zoom.scaleBy(selection, factor): the scale is multiplied by the factor and
\* clamped to the scale extent; the centre of the zoom extent stays fixed.
ScaleBy(t, factor, d) ==
  LET k1 == Max(MinScale, Min(MaxScale, (t.k * factor) \div 10))
      cx == 50 * d.width
      cy == 50 * d.height
  IN [k |-> k1,
      x |-> cx - ((cx - t.x) * k1) \div t.k,
      y |-> cy - ((cy - t.y) * k1) \div t.k]

\* the transform a transition from a to b shows after n of AnimFrames frames
Interpolate(a, b, n) ==
  IF n >= AnimFrames THEN b
  ELSE [k |-> a.k + ((b.k - a.k) * n) \div AnimFrames,
        x |-> a.x + ((b.x - a.x) * n) \div AnimFrames,
        y |-> a.y + ((b.y - a.y) * n) \div AnimFrames]

\* svg.transition()...call(zoom.scaleBy / zoom.transform, ...): schedules a
\* transition; an earlier one that has not started yet is pre-empted by it.
Schedule(op, factor, f, to) ==
  /\ issued' = issued + 1
  /\ pending' = [op |-> op, factor |-> factor, feature |-> f, to |-> to,
                 extent |-> dimensions, id |-> issued + 1]
  /\ UNCHANGED << transform, active, completed >>

\* handleZoom(factor)
handleZoom(factor) ==
  IF ~zoomBehavior \/ loading
  THEN UNCHANGED viewVars
  ELSE Schedule("zoomBy", factor, NoFeature, Identity)

\* resetView() bringing the scale back to 1 and leaving the translation
resetScaleOnly ==
  IF ~zoomBehavior \/ loading
  THEN UNCHANGED viewVars
  ELSE Schedule("reset", 0, NoFeature, [transform EXCEPT !.k = MinScale])

\* the transition part of resetView()
resetTransition ==
  IF ~zoomBehavior \/ loading
  THEN UNCHANGED viewVars
  ELSE Schedule("reset", 0, NoFeature, Identity)

\* the transition part of focusOnFeature(feature)
focusTransition(f) ==
  IF ~zoomBehavior \/ loading
  THEN UNCHANGED viewVars
  ELSE Schedule("focus", 0, f, FocusTransform(f, dimensions))

----------------------------------------------------------------------------
(* Annotation store (App) *)

\* setAnnotations([...annotations, newAnnotation])
addAnnotation(anns, a) == Append(anns, a)

\* updateAnnotation without the a.id === id test
updateEveryAnnotation(anns, id, text) ==
  [i \in 1..Len(anns) |-> [anns[i] EXCEPT !.text = text]]

\* annotations.map(a => a.id === id ? { ...a, text } : a)
updateAnnotation(anns, id, text) ==
  [i \in 1..Len(anns) |-> IF anns[i].id = id THEN [anns[i] EXCEPT !.text = text]
                          ELSE anns[i]]

\* deleteAnnotation written as splice(findIndex(a => a.id === id), 1): an index
\* of -1 removes the last entry
deleteBySplice(anns, id) ==
  IF \E i \in 1..Len(anns) : anns[i].id = id
  THEN SelectSeq(anns, LAMBDA a : a.id # id)
  ELSE SubSeq(anns, 1, Len(anns) - 1)

\* deleteAnnotation with the filter's test inverted
deleteKeepsMatching(anns, id) == SelectSeq(anns, LAMBDA a : a.id = id)

\* annotations.filter(a => a.id !== id)
deleteAnnotation(anns, id) == SelectSeq(anns, LAMBDA a : a.id # id)

\* annotations.map(a => a.id === id ? { ...a, x, y } : a)
moveAnnotation(anns, id, x, y) ==
  [i \in 1..Len(anns) |-> IF anns[i].id = id THEN [anns[i] EXCEPT !.x = x, !.y = y]
                          ELSE anns[i]]

AnnotationIds(anns) == { anns[i].id : i \in 1..Len(anns) }

----------------------------------------------------------------------------
(* Map view handlers *)

\* t.invert([px, py]) with t = d3.zoomTransform(svg)
Invert(t, p) == [x |-> ((100 * p.px - t.x) * 100) \div t.k,
                 y |-> ((100 * p.py - t.y) * 100) \div t.k]

\* resetView()
resetView ==
  /\ resetTransition
  /\ selectedFeatureId' = IF ~zoomBehavior \/ loading THEN selectedFeatureId ELSE NoFeature

\* focusOnFeature(feature) without its setSelectedFeatureId(feature.id)
focusWithoutSelecting(f) ==
  /\ selectedFeatureId' = selectedFeatureId
  /\ focusTransition(f)

\* focusOnFeature(feature)
focusOnFeature(f) ==
  /\ selectedFeatureId' = f
  /\ focusTransition(f)

\* handleMapClick(e) resetting the view whether or not a feature is selected
handleMapClickAlwaysResets(p) ==
  IF isAddingAnnotation /\ ~loading
  THEN LET c == Invert(transform, p)
       IN /\ annotations' = addAnnotation(annotations,
                 [id |-> ToString(now), x |-> c.x, y |-> c.y, text |-> NewAnnotationText])
          /\ isAddingAnnotation' = FALSE
          /\ UNCHANGED << viewVars, selectedFeatureId >>
  ELSE /\ resetTransition
       /\ selectedFeatureId' = NoFeature
       /\ UNCHANGED << annotations, isAddingAnnotation >>

\* handleMapClick(e) placing the annotation at the pointer's position on the screen
handleMapClickAtPointer(p) ==
  IF isAddingAnnotation /\ ~loading
  THEN /\ annotations' = addAnnotation(annotations,
              [id |-> ToString(now), x |-> 100 * p.px, y |-> 100 * p.py,
               text |-> NewAnnotationText])
       /\ isAddingAnnotation' = FALSE
       /\ UNCHANGED << viewVars, selectedFeatureId >>
  ELSE IF selectedFeatureId # NoFeature
       THEN /\ resetTransition
            /\ selectedFeatureId' = NoFeature
            /\ UNCHANGED << annotations, isAddingAnnotation >>
       ELSE UNCHANGED << viewVars, selectedFeatureId, annotations, isAddingAnnotation >>

\* handleMapClick(e): the svg's onClick
handleMapClick(p) ==
  IF isAddingAnnotation /\ ~loading
  THEN LET c == Invert(transform, p)
       IN /\ annotations' = addAnnotation(annotations,
                 [id |-> ToString(now), x |-> c.x, y |-> c.y, text |-> NewAnnotationText])
          /\ isAddingAnnotation' = FALSE
          /\ UNCHANGED << viewVars, selectedFeatureId >>
  ELSE IF selectedFeatureId # NoFeature
       THEN /\ resetTransition
            /\ selectedFeatureId' = NoFeature
            /\ UNCHANGED << annotations, isAddingAnnotation >>
       ELSE UNCHANGED << viewVars, selectedFeatureId, annotations, isAddingAnnotation >>

----------------------------------------------------------------------------
(* Search box *)

\* String.prototype.toLowerCase, one character at a time
LowerChar(c) ==
  CASE c = "U" -> "u"
    [] c = "N" -> "n"
    [] c = "I" -> "i"
    [] c = "R" -> "r"
    [] c = "C" -> "c"
    [] c = "S" -> "s"
    [] c = "V" -> "v"
    [] OTHER   -> c

toLowerCase(text) == [i \in 1..Len(text) |-> LowerChar(text[i])]

\* text.includes(part)
includes(text, part) ==
  \E i \in 0..(Len(text) - Len(part)) : SubSeq(text, i + 1, i + Len(part)) = part

\* results.slice(0, 5)
slice(list, n) == SubSeq(list, 1, Min(n, Len(list)))

\* the filter of handleSearchInput comparing the name as it is spelled
matchesCaseSensitive(f, val) == includes(f.name, toLowerCase(val))

\* f.properties.name.toLowerCase().includes(val.toLowerCase())
matches(f, val) == includes(toLowerCase(f.name), toLowerCase(val))

\* handleSearchInput(e) with e.target.value = val
handleSearchInput(val) ==
  /\ searchQuery' = val
  /\ IF Len(val) > 1
     THEN /\ searchResults' = slice(SelectSeq(geoData, LAMBDA f : matches(f, val)), MaxResults)
          /\ isSearchActive' = TRUE
     ELSE /\ searchResults' = << >>
          /\ isSearchActive' = FALSE

\* selectSearchResult(feature) leaving the query text as typed
selectWithoutQuery(feature) ==
  /\ searchQuery' = searchQuery
  /\ isSearchActive' = FALSE
  /\ focusOnFeature(feature.id)
  /\ UNCHANGED searchResults

\* selectSearchResult(feature)
selectSearchResult(feature) ==
  /\ searchQuery' = feature.name
  /\ isSearchActive' = FALSE
  /\ focusOnFeature(feature.id)
  /\ UNCHANGED searchResults

----------------------------------------------------------------------------
(* Sidebar: dataset analysis *)

RECURSIVE Sum(_)
\* values.reduce((a, b) => a + b, 0)
Sum(values) == IF values = << >> THEN 0 ELSE values[1] + Sum(Tail(values))

\* Math.max(...values) and Math.min(...values) of a dataset that has values
MaxOf(values) == CHOOSE v \in { values[i] : i \in 1..Len(values) } :
                   \A i \in 1..Len(values) : values[i] <= v
MinOf(values) == CHOOSE v \in { values[i] : i \in 1..Len(values) } :
                   \A i \in 1..Len(values) : values[i] >= v

\* checkDataHealth looking for zero values only
checkOnlyZeros(data) ==
  IF \E i \in 1..Len(data.values) : data.values[i] = 0 THEN "warning" ELSE "good"

\* checkDataHealth(data): the value it hands to setDataHealth
checkDataHealth(data) ==
  LET hasZeros == \E i \in 1..Len(data.values) : data.values[i] = 0
  IN IF hasZeros \/ Len(data.values) < MinRegions THEN "warning" ELSE "good"

\* the value fixDataIssues() hands to setMapData: Math.floor(avg) for every zero.
\* Without values avg is NaN and there is no entry to rewrite.
fixedData(data) ==
  LET values == data.values
      floorAvg == IF values = << >> THEN 0 ELSE Sum(values) \div Len(values)
  IN [data EXCEPT !.values =
        [i \in 1..Len(values) |-> IF values[i] = 0 THEN floorAvg ELSE values[i]]]

\* generateAIContent(data): the list it hands to setInsights.  Without values
\* Math.min() is Infinity and Math.max() is -Infinity (the empty range here),
\* and no key holds the maximum ('Unknown', position 0 here).
generateInsights(data) ==
  LET values == data.values
  IN << [type |-> "trend", text |-> "Data range spans",
         value |-> IF values = << >> THEN << >> ELSE << MinOf(values), MaxOf(values) >>],
        [type |-> "outlier", text |-> "Highest concentration in region",
         value |-> IF values = << >> THEN << 0 >>
                   ELSE << CHOOSE i \in 1..Len(values) :
                             /\ values[i] = MaxOf(values)
                             /\ \A j \in 1..(i - 1) : values[j] # MaxOf(values) >>] >>

\* range > 1000 read as range >= 1000
isWideRangeInclusive(values) ==
  values # << >> /\ MaxOf(values) - MinOf(values) >= WideRange

\* range > 1000, with range = maxVal - minVal (-Infinity without values)
isWideRange(values) ==
  values # << >> /\ MaxOf(values) - MinOf(values) > WideRange

\* generateAIContent(data): the list it hands to setSmartSuggestions; a card is
\* its id, the setting its action writes and the value it writes
generateSuggestions(data) ==
  << [id |-> "title", sets |-> "title", to |-> << data.metric, data.unit >>] >>
  \o << [id |-> "palette", sets |-> "palette",
         to |-> IF isWideRange(data.values) THEN << "sunset" >> ELSE << "ocean" >>] >>
  \o (IF Len(data.values) > ManyRegions
      THEN << [id |-> "class", sets |-> "classificationMethod", to |-> << "quantile" >>] >>
      ELSE << >>)

\* the effect on [mapData], run with the dataset the render received
mapDataEffect(data) ==
  IF data # NoData
  THEN /\ activeTab' = "analysis"
       /\ insights' = generateInsights(data)
       /\ smartSuggestions' = generateSuggestions(data)
       /\ dataHealth' = checkDataHealth(data)
  ELSE /\ insights' = << >>
       /\ smartSuggestions' = << >>
       /\ dataHealth' = "good"
       /\ UNCHANGED activeTab

\* fixDataIssues() whose new dataset does not make the effect run again
fixWithoutEffect ==
  /\ mapData' = fixedData(mapData)
  /\ dataHealth' = "good"
  /\ UNCHANGED << activeTab, insights, smartSuggestions >>

\* fixDataIssues() and the effect its setMapData makes run
fixDataIssues ==
  /\ mapData' = fixedData(mapData)
  /\ mapDataEffect(fixedData(mapData))

----------------------------------------------------------------------------
(* Sidebar: file upload.  The repository holds two revisions of the Sidebar:   *)
(* components/Sidebar.tsx validates the file, the later one sets it as it is. *)

validTypes == { "application/json", "text/csv",
                "application/vnd.openxmlformats-officedocument.spreadsheetml.sheet",
                "application/vnd.ms-excel" }

validExtensions == { << "." >> \o ExtJson, << "." >> \o ExtCsv, << "." >> \o ExtXlsx,
                     << "." >> \o ExtXls }

\* '.' + file.name.split('.').pop()?.toLowerCase(): split never gives an empty
\* list, so the last part is the whole name when the name has no dot
fileExtension(file) == << "." >> \o toLowerCase(file.name[Len(file.name)])

\* validateAndSetFile(file) of components/Sidebar.tsx
validateAndSetFile(file) ==
  IF file.type \in validTypes \/ fileExtension(file) \in validExtensions
  THEN uploadedFile' = file /\ uploadError' = NoError
  ELSE uploadError' = UnsupportedMessage /\ UNCHANGED uploadedFile

\* validateAndSetFile(file) of the later Sidebar: setUploadedFile(file)
validateAndSetFileSimplified(file) ==
  uploadedFile' = file /\ UNCHANGED uploadError

----------------------------------------------------------------------------
(* Colour scale (MapPreview) *)

\* types.ts, which declares MapStyle, PALETTES and DEFAULT_MAP_STYLE, is not among
\* the sources.  A colour is << red, green, blue >> with channels in 0..255.
PaletteTypes == { "ocean", "sunset", "custom" }
ClassificationMethods == { "quantile", "equal", "natural" }

\* PALETTES[p]: the ordered colours of palette p
PALETTES ==
  [p \in PaletteTypes |->
     CASE p = "ocean"  -> << << 8, 29, 88 >>, << 34, 94, 168 >>, << 65, 182, 196 >>,
                             << 199, 233, 180 >>, << 255, 255, 217 >> >>
       [] p = "sunset" -> << << 255, 245, 157 >>, << 255, 138, 101 >>, << 173, 20, 87 >> >>
       [] OTHER        -> << << 0, 0, 0 >>, << 255, 255, 255 >> >>]

DEFAULT_MAP_STYLE ==
  [palette |-> "ocean", classificationMethod |-> "quantile", classesCount |-> 5]

\* the palettes and class counts the Sidebar offers
OfferedPalettes == PaletteTypes \ { "custom" }
OfferedCounts == MinClasses..MaxClasses

\* the mapStyle prop MapPreview may be rendered with: classesCount is a number
ClassCounts == (0 - 1)..(MaxClasses + 1)
MapStyles ==
  [palette : PaletteTypes, classificationMethod : ClassificationMethods,
   classesCount : ClassCounts]

\* d3-interpolate's basis spline through the values of one channel, at t = i / q
\* with 0 <= i <= q, as the numerator of a fraction over 6 q^3.  The spline ends
\* on the first and the last value: the values before the first and after the
\* last are mirrored.
basis(values, i, q) ==
  LET m == Len(values) - 1
      seg == IF i >= q THEN m - 1 ELSE (i * m) \div q
      a == i * m - seg * q
      v1 == values[seg + 1]
      v2 == values[seg + 2]
      v0 == IF seg > 0 THEN values[seg] ELSE 2 * v1 - v2
      v3 == IF seg < m - 1 THEN values[seg + 3] ELSE 2 * v2 - v1
  IN (q - a)^3 * v0
     + (4 * q^3 - 6 * a^2 * q + 3 * a^3) * v1
     + (q^3 + 3 * a * q^2 + 3 * a^2 * q - 3 * a^3) * v2
     + a^3 * v3

\* one channel of the colour string: Math.round, clamped to 0..255; 0 / 0 is NaN,
\* which the colour string shows as 0
channel(values, i, q) ==
  IF q = 0 THEN 0
  ELSE Max(0, Min(255, (2 * basis(values, i, q) + 6 * q^3) \div (12 * q^3)))

\* d3.interpolateRgbBasis(colors)(i / q)
interpolateRgbBasis(colors, i, q) ==
  [c \in 1..3 |-> channel([k \in 1..Len(colors) |-> colors[k][c]], i, q)]

\* d3.quantize(d3.interpolateRgbBasis(colors), n): n samples at t = i / (n - 1)
quantize(colors, n) ==
  [i \in 1..n |-> interpolateRgbBasis(colors, i - 1, n - 1)]

\* scaleQuantile().domain(values): the values in ascending order
sortedDomain(values) == SortSeq(values, LAMBDA a, b : a < b)

\* thresholds[k] <= x, where thresholds[k] = d3.quantile(domain, k / n) lies between
\* two neighbours of the sorted domain
thresholdAtMost(domain, k, n, x) ==
  LET i0 == ((Len(domain) - 1) * k) \div n
      rem == ((Len(domain) - 1) * k) % n
  IN IF Len(domain) < 2 THEN domain[1] <= x
     ELSE n * domain[i0 + 1] + (domain[i0 + 2] - domain[i0 + 1]) * rem <= n * x

\* bisect(thresholds, x): the number of the n - 1 thresholds that are <= x
bisect(domain, n, x) ==
  Cardinality({ k \in 1..(n - 1) : thresholdAtMost(domain, k, n, x) })

NoScale == [outcome |-> "null", domain |-> << >>, range |-> << >>]

\* what a scale without colours returns
Undefined == << >>

\* colorScale whose range is the palette's own colours
colorScaleOfPaletteColours ==
  IF mapData = NoData THEN NoScale
  ELSE IF mapStyle.classesCount < 0 THEN [NoScale EXCEPT !.outcome = "RangeError"]
  ELSE [outcome |-> "scale",
        domain |-> sortedDomain(mapData.values),
        range |-> PALETTES[mapStyle.palette]]

\* the colorScale memo: null without a dataset; new Array(n) of d3.quantize
\* throws a RangeError for a negative n
colorScale ==
  IF mapData = NoData THEN NoScale
  ELSE IF mapStyle.classesCount < 0 THEN [NoScale EXCEPT !.outcome = "RangeError"]
  ELSE [outcome |-> "scale",
        domain |-> sortedDomain(mapData.values),
        range |-> quantize(PALETTES[mapStyle.palette], mapStyle.classesCount)]

\* the class of x, counted from 0: scaleQuantile has max(1, range.length) classes
classOf(scale, x) == bisect(scale.domain, Max(1, Len(scale.range)), x)

\* colorScale(x)
scaleColor(scale, x) ==
  IF scale.range = << >> THEN Undefined ELSE scale.range[classOf(scale, x) + 1]

----------------------------------------------------------------------------
(* Initial state *)

\* the state hooks whose initial value the sources give
InitExceptStyle ==
  /\ loading = TRUE
  /\ geoData = << >>
  /\ dimensions = InitialDimensions
  /\ zoomBehavior = FALSE
  /\ transform = Identity
  /\ pending = NoReq
  /\ active = NoAnim
  /\ issued = 0
  /\ completed = NoAnim
  /\ selectedFeatureId = NoFeature
  /\ isAddingAnnotation = FALSE
  /\ annotations = << >>
  /\ editingAnnotationId = NoAnnotation
  /\ now = 0
  /\ history = << >>
  /\ topologyFetch = [count |-> 1, outcome |-> "pending"]
  /\ searchQuery = << >>
  /\ searchResults = << >>
  /\ isSearchActive = FALSE
  /\ draggingAnnotationId = NoAnnotation
  /\ pointer = [px |-> 0, py |-> 0]
  /\ mapData = NoData
  /\ activeTab = "prompt"
  /\ insights = << >>
  /\ smartSuggestions = << >>
  /\ dataHealth = "good"
  /\ uploadedFile = NoFile
  /\ uploadError = NoError
  /\ rendered = << >>
  /\ dispatched = << >>
  /\ prompt = << >>
  /\ isFocused = FALSE
  /\ autocompleteSuggestions = << >>
  /\ promptHasFocus = FALSE
  /\ blurTimeouts = 0

Init == InitExceptStyle /\ mapStyle = DEFAULT_MAP_STYLE

----------------------------------------------------------------------------------------------------------------------------------------
(* Events *)

appVars == << isAddingAnnotation, annotations, editingAnnotationId, now, history >>
loadVars == << loading, geoData, dimensions, zoomBehavior, topologyFetch >>

\* fetchTopology(): the response arrives and parses
FetchSucceeds(topology) ==
  /\ topologyFetch.outcome = "pending"
  /\ geoData' = SelectSeq(topology, LAMBDA f : f.id # "010")
  /\ loading' = FALSE
  /\ topologyFetch' = [topologyFetch EXCEPT !.outcome = "loaded"]
  /\ UNCHANGED << dimensions, zoomBehavior, viewVars, selectedFeatureId, appVars,
                  panelVars >>

\* fetchTopology(): a catch branch that calls fetchTopology() once more
FetchFailsAndRetries ==
  /\ topologyFetch.outcome = "pending" /\ topologyFetch.count = 1
  /\ topologyFetch' = [topologyFetch EXCEPT !.count = 2]
  /\ UNCHANGED << loading, geoData, dimensions, zoomBehavior, viewVars, selectedFeatureId,
                  appVars, panelVars >>

\* fetchTopology(): the catch branch
FetchFails ==
  /\ topologyFetch.outcome = "pending"
  /\ loading' = FALSE
  /\ topologyFetch' = [topologyFetch EXCEPT !.outcome = "failed"]
  /\ UNCHANGED << geoData, dimensions, zoomBehavior, viewVars, selectedFeatureId,
                  appVars, panelVars >>

\* the ResizeObserver callback and the zoom-behaviour effect its setDimensions re-runs
Resize(d) ==
  /\ dimensions' = d
  /\ zoomBehavior' = IF loading THEN zoomBehavior ELSE TRUE
  /\ UNCHANGED << loading, geoData, topologyFetch, viewVars, selectedFeatureId,
                  appVars, panelVars >>

\* the transform after the running transition's tick of this frame
Ticked == IF active.op = "none" THEN transform
          ELSE Interpolate(active.from, active.to, active.frame + 1)

\* the running transition after its tick of this frame
Running == IF active.op = "none" \/ active.frame + 1 >= AnimFrames THEN NoAnim
           ELSE [active EXCEPT !.frame = active.frame + 1]

\* the scheduled transition r starting at transform t: zoom.transform's tween
\* reads the element's transform when the transition starts
Started(r, t) == [op |-> r.op, feature |-> r.feature, from |-> t,
                  to |-> IF r.op = "zoomBy" THEN ScaleBy(t, r.factor, r.extent) ELSE r.to,
                  frame |-> 0, id |-> r.id]

\* an animation frame in which a scheduled transition waits for the running one to end
FrameQueues ==
  /\ active.op # "none" \/ pending.op # "none"
  /\ transform' = Ticked
  /\ completed' = IF active.op # "none" /\ Running.op = "none"
                  THEN [active EXCEPT !.frame = active.frame + 1] ELSE completed
  /\ IF pending.op = "none" \/ Running.op # "none"
     THEN /\ active' = Running
          /\ pending' = pending
     ELSE /\ active' = Started(pending, Ticked)
          /\ pending' = NoReq
  /\ UNCHANGED << issued, loadVars, selectedFeatureId, appVars, panelVars >>

\* one animation frame: the running transition ticks, then the scheduled one
\* starts and interrupts it
Frame ==
  /\ active.op # "none" \/ pending.op # "none"
  /\ transform' = Ticked
  /\ completed' = IF active.op # "none" /\ Running.op = "none"
                  THEN [active EXCEPT !.frame = active.frame + 1] ELSE completed
  /\ IF pending.op = "none"
     THEN /\ active' = Running
          /\ pending' = pending
     ELSE /\ active' = Started(pending, Ticked)
          /\ pending' = NoReq
  /\ UNCHANGED << issued, loadVars, selectedFeatureId, appVars, panelVars >>

\* onClick of the zoom-in button
ClickZoomIn ==
  /\ issued < MaxRequests
  /\ handleZoom(ZoomInFactor)
  /\ UNCHANGED << loadVars, selectedFeatureId, appVars, panelVars >>

\* onClick of the zoom-out button
ClickZoomOut ==
  /\ issued < MaxRequests
  /\ handleZoom(ZoomOutFactor)
  /\ UNCHANGED << loadVars, selectedFeatureId, appVars, panelVars >>

\* onClick of the reset button
ClickReset ==
  /\ issued < MaxRequests
  /\ resetView
  /\ UNCHANGED << loadVars, appVars, panelVars >>

\* onClick of a feature's path without e.stopPropagation(): the svg's handler runs
\* after it, with the selection of the render the click happened in
ClickFeatureBubbles(f, p, room) ==
  /\ ~loading /\ f \in FeatureIds(geoData)
  /\ issued < MaxRequests
  /\ IF ~isAddingAnnotation
     THEN /\ IF selectedFeatureId # NoFeature
             THEN resetTransition /\ selectedFeatureId' = NoFeature
             ELSE focusOnFeature(f)
          /\ UNCHANGED << annotations, isAddingAnnotation >>
     ELSE /\ Len(annotations) < room
          /\ handleMapClick(p)
  /\ UNCHANGED << loadVars, editingAnnotationId, now, history, panelVars >>

\* onClick of a feature's path; in placement mode the click bubbles to the svg
ClickFeature(f, p, room) ==
  /\ ~loading /\ f \in FeatureIds(geoData)
  /\ issued < MaxRequests
  /\ IF ~isAddingAnnotation
     THEN /\ focusOnFeature(f)
          /\ UNCHANGED << annotations, isAddingAnnotation >>
     ELSE /\ Len(annotations) < room
          /\ handleMapClick(p)
  /\ UNCHANGED << loadVars, editingAnnotationId, now, history, panelVars >>

\* onDoubleClick of a feature's path
DoubleClickFeature(f) ==
  /\ ~loading /\ f \in FeatureIds(geoData)
  /\ issued < MaxRequests
  /\ focusOnFeature(f)
  /\ UNCHANGED << loadVars, appVars, panelVars >>

\* a click on the svg outside every feature
ClickEmptySpace(p, room) ==
  /\ ~loading
  /\ issued < MaxRequests
  /\ isAddingAnnotation => Len(annotations) < room
  /\ handleMapClick(p)
  /\ UNCHANGED << loadVars, editingAnnotationId, now, history, panelVars >>

\* Sidebar: the "Add Annotation" toggle
ToggleAddingAnnotation ==
  /\ isAddingAnnotation' = ~isAddingAnnotation
  /\ UNCHANGED << loadVars, viewVars, selectedFeatureId, annotations,
                  editingAnnotationId, now, history, panelVars >>

\* onDoubleClick of an annotation's text
StartEditing(id) ==
  /\ ~loading /\ id \in AnnotationIds(annotations)
  /\ editingAnnotationId' = id
  /\ UNCHANGED << loadVars, viewVars, selectedFeatureId, isAddingAnnotation,
                  annotations, now, history, panelVars >>

\* onBlur of the open textarea
BlurTextarea(id, text) ==
  /\ ~loading /\ id \in AnnotationIds(annotations) /\ editingAnnotationId = id
  /\ annotations' = updateAnnotation(annotations, id, text)
  /\ editingAnnotationId' = NoAnnotation
  /\ UNCHANGED << loadVars, viewVars, selectedFeatureId, isAddingAnnotation, now, history,
                  panelVars >>

\* onClick of an annotation's delete button
ClickDelete(id) ==
  /\ ~loading /\ id \in AnnotationIds(annotations) /\ editingAnnotationId # id
  /\ annotations' = deleteAnnotation(annotations, id)
  /\ UNCHANGED << loadVars, viewVars, selectedFeatureId, isAddingAnnotation,
                  editingAnnotationId, now, history, panelVars >>

\* Date.now() reads the wall clock in whole milliseconds: it moves on between
\* events (or not, within one millisecond) and can be set back
ClockTick ==
  /\ \E t \in 0..MaxClock : t # now /\ now' = t
  /\ UNCHANGED << loadVars, viewVars, selectedFeatureId, isAddingAnnotation,
                  annotations, editingAnnotationId, history, panelVars >>

\* onMouseDown of an annotation's wrapper
MouseDownAnnotation(id, p) ==
  /\ ~loading /\ id \in AnnotationIds(annotations)
  /\ draggingAnnotationId' = id
  /\ pointer' = p
  /\ UNCHANGED << loadVars, viewVars, selectedFeatureId, appVars, searchVars, dataVars, sideVars,
                  uploadVars >>

\* the mouse moves over the map: neither the svg nor an annotation has a handler
\* for it (the tooltip of a feature under the pointer is not part of the model)
MouseMove(p) ==
  /\ ~loading
  /\ pointer' = p
  /\ UNCHANGED << loadVars, viewVars, selectedFeatureId, appVars, searchVars, dataVars, sideVars,
                  uploadVars, draggingAnnotationId >>

\* onChange of the search box
SearchInput(val) ==
  /\ val # searchQuery
  /\ handleSearchInput(val)
  /\ UNCHANGED << loadVars, viewVars, selectedFeatureId, appVars, dragVars, dataVars, sideVars,
                  uploadVars >>

\* onFocus of the search box
FocusSearchBox ==
  /\ Len(searchQuery) > 1
  /\ isSearchActive' = TRUE
  /\ UNCHANGED << loadVars, viewVars, selectedFeatureId, appVars, dragVars, dataVars, sideVars,
                  uploadVars, searchQuery, searchResults >>

\* onClick of the search box's clear button
ClearSearch ==
  /\ searchQuery # << >>
  /\ searchQuery' = << >>
  /\ isSearchActive' = FALSE
  /\ UNCHANGED << loadVars, viewVars, selectedFeatureId, appVars, dragVars, dataVars, sideVars,
                  uploadVars, searchResults >>

\* onClick of the i-th entry of the dropdown
SelectSearchResult(i) ==
  /\ isSearchActive /\ i \in 1..Len(searchResults)
  /\ issued < MaxRequests
  /\ selectSearchResult(searchResults[i])
  /\ UNCHANGED << loadVars, appVars, dragVars, dataVars, sideVars, uploadVars >>

dataFrame == << loadVars, viewVars, selectedFeatureId, appVars, searchVars, dragVars,
               uploadVars, sideVars >>

\* onClick of "Load Demo Data" on the map (shown without a dataset) or of the
\* sample-data button of the upload tab: setMapData(SAMPLE_DATASET) and the effect.
\* With a dataset in place the sample differs from it only after a fix.
LoadData(d) ==
  /\ \/ mapData = NoData
     \/ activeTab = "upload" /\ mapData # d /\ mapData = fixedData(d)
  /\ mapData' = d
  /\ mapDataEffect(d)
  /\ UNCHANGED dataFrame

\* onClick of the data badge's close button: setMapData(null) and the effect
ClearData ==
  /\ mapData # NoData
  /\ mapData' = NoData
  /\ mapDataEffect(NoData)
  /\ UNCHANGED dataFrame

\* onClick of "Auto-Fix Data", shown on the analysis tab while the health is "warning"
FixData ==
  /\ activeTab = "analysis" /\ mapData # NoData /\ dataHealth = "warning"
  /\ fixDataIssues
  /\ UNCHANGED dataFrame

\* onClick of a tab; the analysis tab is shown while a dataset is loaded
SelectTab(tab) ==
  /\ tab # activeTab
  /\ tab = "analysis" => mapData # NoData
  /\ activeTab' = tab
  /\ UNCHANGED << dataFrame, mapData, insights, smartSuggestions, dataHealth >>

uploadFrame == << loadVars, viewVars, selectedFeatureId, appVars, searchVars, dragVars,
                 dataVars, sideVars >>

\* handleDrop / handleFileInput of components/Sidebar.tsx with the file first in the list
SubmitFile(file) ==
  /\ activeTab = "upload"
  /\ validateAndSetFile(file)
  /\ UNCHANGED uploadFrame

\* handleDrop / handleFileInput of the later Sidebar
SubmitFileSimplified(file) ==
  /\ activeTab = "upload"
  /\ validateAndSetFileSimplified(file)
  /\ UNCHANGED uploadFrame

\* removeFile of components/Sidebar.tsx
RemoveFile ==
  /\ activeTab = "upload" /\ uploadedFile # NoFile
  /\ uploadedFile' = NoFile
  /\ uploadError' = NoError
  /\ UNCHANGED uploadFrame

\* removeFile of the later Sidebar
RemoveFileSimplified ==
  /\ activeTab = "upload" /\ uploadedFile # NoFile
  /\ uploadedFile' = NoFile
  /\ UNCHANGED << uploadFrame, uploadError >>

Next ==
  \/ FetchSucceeds(WorldTopology)
  \/ FetchFails
  \/ \E d \in Viewports : Resize(d)
  \/ Frame
  \/ ClickZoomIn
  \/ ClickZoomOut
  \/ ClickReset
  \/ \E f \in Features, p \in ClickPoints : ClickFeature(f, p, MaxPlaced)
  \/ \E f \in Features : DoubleClickFeature(f)
  \/ \E p \in ClickPoints : ClickEmptySpace(p, MaxPlaced)
  \/ ToggleAddingAnnotation

Spec == Init /\ [][Next]_vars

AnnotationNext ==
  \/ FetchSucceeds(WorldTopology)
  \/ FetchFails
  \/ ToggleAddingAnnotation
  \/ \E f \in Features, p \in ClickPoints : ClickFeature(f, p, MaxAnnotations)
  \/ \E p \in ClickPoints : ClickEmptySpace(p, MaxAnnotations)
  \/ \E id \in AnnotationIds(annotations) : StartEditing(id)
  \/ \E id \in AnnotationIds(annotations), text \in Texts : BlurTextarea(id, text)
  \/ \E id \in AnnotationIds(annotations) : ClickDelete(id)
  \/ \E id \in AnnotationIds(annotations), p \in PointerPositions : MouseDownAnnotation(id, p)
  \/ \E p \in PointerPositions : MouseMove(p)
  \/ ClockTick

AnnotationSpec == Init /\ [][AnnotationNext]_vars

----------------------------------------------------------------------------
(* App's annotation handlers, called with any annotation and any identifier *)

StoreIds == { "1", "2", "3" }
StorePoints == { [x |-> 10, y |-> 20], [x |-> 30, y |-> 40] }
StoreAnnotations ==
  { [id |-> i, x |-> q.x, y |-> q.y, text |-> t] : i \in StoreIds, q \in StorePoints, t \in Texts }

Op(name, id, x, y, text) == [op |-> name, id |-> id, x |-> x, y |-> y, text |-> text]

storeFrame == << loadVars, viewVars, selectedFeatureId, editingAnnotationId, now,
                panelVars >>

\* addAnnotation(newAnnotation)
StoreAdd(a) ==
  /\ Len(history) < MaxHistory
  /\ annotations' = addAnnotation(annotations, a)
  /\ isAddingAnnotation' = FALSE
  /\ history' = Append(history, Op("add", a.id, a.x, a.y, a.text))
  /\ UNCHANGED storeFrame

\* updateAnnotation(id, text)
StoreUpdate(id, text) ==
  /\ Len(history) < MaxHistory
  /\ annotations' = updateAnnotation(annotations, id, text)
  /\ history' = Append(history, Op("update", id, 0, 0, text))
  /\ UNCHANGED << storeFrame, isAddingAnnotation >>

\* deleteAnnotation(id)
StoreDelete(id) ==
  /\ Len(history) < MaxHistory
  /\ annotations' = deleteAnnotation(annotations, id)
  /\ history' = Append(history, Op("delete", id, 0, 0, ""))
  /\ UNCHANGED << storeFrame, isAddingAnnotation >>

\* moveAnnotation(id, x, y)
StoreMove(id, q) ==
  /\ Len(history) < MaxHistory
  /\ annotations' = moveAnnotation(annotations, id, q.x, q.y)
  /\ history' = Append(history, Op("move", id, q.x, q.y, ""))
  /\ UNCHANGED << storeFrame, isAddingAnnotation >>

StoreNext ==
  \/ \E a \in StoreAnnotations : StoreAdd(a)
  \/ \E id \in StoreIds, text \in Texts : StoreUpdate(id, text)
  \/ \E id \in StoreIds : StoreDelete(id)
  \/ \E id \in StoreIds, q \in StorePoints : StoreMove(id, q)

StoreSpec == Init /\ [][StoreNext]_vars

----------------------------------------------------------------------------
(* App's annotation handlers as closures of a render *)

\* App's handlers are created anew by every render and read the annotations of
\* that render; setAnnotations(value) replaces the state, and React renders
\* again once the event that called them is over.  StoreSpec renders after every
\* operation; here several operations may reach the handlers of one render.
BatchAnnotations ==
  { [id |-> i, x |-> 10, y |-> 20, text |-> "A"] : i \in { "1", "2" } }

batchFrame == << loadVars, viewVars, selectedFeatureId, editingAnnotationId, now, history,
                searchVars, dragVars, dataVars, uploadVars, styleVars, promptVars >>

\* addAnnotation(newAnnotation) of the render in use
DispatchAdd(a) ==
  /\ Len(dispatched) < MaxBatch /\ Len(rendered) < MaxAnnotations
  /\ annotations' = addAnnotation(rendered, a)
  /\ isAddingAnnotation' = FALSE
  /\ dispatched' = Append(dispatched, Op("add", a.id, a.x, a.y, a.text))
  /\ UNCHANGED << batchFrame, rendered >>

\* updateAnnotation(id, text) of the render in use
DispatchUpdate(id, text) ==
  /\ Len(dispatched) < MaxBatch
  /\ annotations' = updateAnnotation(rendered, id, text)
  /\ dispatched' = Append(dispatched, Op("update", id, 0, 0, text))
  /\ UNCHANGED << batchFrame, rendered, isAddingAnnotation >>

\* deleteAnnotation(id) of the render in use
DispatchDelete(id) ==
  /\ Len(dispatched) < MaxBatch
  /\ annotations' = deleteAnnotation(rendered, id)
  /\ dispatched' = Append(dispatched, Op("delete", id, 0, 0, ""))
  /\ UNCHANGED << batchFrame, rendered, isAddingAnnotation >>

\* moveAnnotation(id, x, y) of the render in use
DispatchMove(id, q) ==
  /\ Len(dispatched) < MaxBatch
  /\ annotations' = moveAnnotation(rendered, id, q.x, q.y)
  /\ dispatched' = Append(dispatched, Op("move", id, q.x, q.y, ""))
  /\ UNCHANGED << batchFrame, rendered, isAddingAnnotation >>

\* React renders App with the state as it stands: new handlers, new snapshot
Render ==
  /\ dispatched # << >>
  /\ rendered' = annotations
  /\ dispatched' = << >>
  /\ UNCHANGED << batchFrame, annotations, isAddingAnnotation >>

BatchNext ==
  \/ \E a \in BatchAnnotations : DispatchAdd(a)
  \/ \E id \in { "1", "2" } : DispatchUpdate(id, "B")
  \/ \E id \in { "1", "2" } : DispatchDelete(id)
  \/ \E id \in { "1", "2" } : DispatchMove(id, [x |-> 30, y |-> 40])
  \/ Render

BatchSpec == Init /\ [][BatchNext]_vars

----------------------------------------------------------------------------
(* The search box over any fetched feature list *)

SearchNext ==
  \/ \E t \in Topologies : FetchSucceeds(t)
  \/ FetchFails
  \/ Resize(InitialDimensions)
  \/ \E val \in Queries : SearchInput(val)
  \/ FocusSearchBox
  \/ ClearSearch
  \/ \E i \in 1..MaxResults : SelectSearchResult(i)

SearchSpec == Init /\ [][SearchNext]_vars

----------------------------------------------------------------------------
(* The dataset and what the Sidebar derives from it *)

DataNext ==
  \/ \E d \in Datasets : LoadData(d)
  \/ ClearData
  \/ FixData
  \/ \E tab \in Tabs : SelectTab(tab)

DataSpec == Init /\ [][DataNext]_vars

----------------------------------------------------------------------------
(* The file upload *)

UploadNext ==
  \/ \E tab \in Tabs : SelectTab(tab)
  \/ \E file \in Files : SubmitFile(file)
  \/ \E file \in Files : SubmitFileSimplified(file)
  \/ RemoveFile
  \/ RemoveFileSimplified

UploadSpec == Init /\ [][UploadNext]_vars

----------------------------------------------------------------------------
(* The map style and the colour scale built from it *)

\* the datasets loaded in a run of StyleSpec: the entries chosen one by one
StyleDatasets == { d \in Datasets : d.metric = "GDP" /\ Len(d.values) <= MaxEntries }

styleFrame == << loadVars, viewVars, selectedFeatureId, appVars, searchVars, dragVars,
                dataVars, uploadVars, renderVars, promptVars >>

\* updateStyle('palette', p): onClick of a palette button of the style tab
UpdatePalette(p) ==
  /\ activeTab = "style" /\ p # mapStyle.palette
  /\ mapStyle' = [mapStyle EXCEPT !.palette = p]
  /\ UNCHANGED styleFrame

\* updateStyle('classificationMethod', m): onChange of the method select
UpdateMethod(m) ==
  /\ activeTab = "style" /\ m # mapStyle.classificationMethod
  /\ mapStyle' = [mapStyle EXCEPT !.classificationMethod = m]
  /\ UNCHANGED styleFrame

\* updateStyle('classesCount', parseInt(e.target.value)): onChange of the slider
UpdateClasses(n) ==
  /\ activeTab = "style" /\ n # mapStyle.classesCount
  /\ mapStyle' = [mapStyle EXCEPT !.classesCount = n]
  /\ UNCHANGED styleFrame

\* onClick of the i-th suggestion card: its action writes one setting of the
\* style (the title card writes the title settings, which are not part of the model)
ApplySuggestion(i) ==
  /\ activeTab = "analysis" /\ i \in 1..Len(smartSuggestions)
  /\ smartSuggestions[i].sets # "title"
  /\ mapStyle[smartSuggestions[i].sets] # smartSuggestions[i].to[1]
  /\ mapStyle' = [mapStyle EXCEPT ![smartSuggestions[i].sets] = smartSuggestions[i].to[1]]
  /\ UNCHANGED styleFrame

StyleNext ==
  \/ \E d \in StyleDatasets : LoadData(d)
  \/ ClearData
  \/ \E tab \in { "style", "analysis" } : SelectTab(tab)
  \/ \E p \in OfferedPalettes : UpdatePalette(p)
  \/ \E m \in ClassificationMethods : UpdateMethod(m)
  \/ \E n \in OfferedCounts : UpdateClasses(n)
  \/ \E i \in 1..3 : ApplySuggestion(i)

\* DEFAULT_MAP_STYLE is not in the sources and MapPreview builds the scale from
\* whatever style it is handed: a run starts from any style
StyleInit == InitExceptStyle /\ mapStyle \in MapStyles

StyleSpec == StyleInit /\ [][StyleNext]_vars

----------------------------------------------------------------------------
(* The topology fetch, which settles *)

LoadNext ==
  \/ FetchSucceeds(WorldTopology)
  \/ FetchFails
  \/ \E d \in Viewports : Resize(d)
  \/ ToggleAddingAnnotation
  \/ \E p \in ClickPoints : ClickEmptySpace(p, MaxPlaced)
  \/ \E val \in Queries : SearchInput(val)
  \/ FocusSearchBox
  \/ ClearSearch
  \/ \E i \in 1..MaxResults : SelectSearchResult(i)

\* the request is answered or fails: the browser ends a request that gets no answer
LoadSpec ==
  Init /\ [][LoadNext]_vars /\ WF_vars(FetchSucceeds(WorldTopology) \/ FetchFails)

----------------------------------------------------------------------------
(* The prompt of the Sidebar and its autocomplete *)

\* const examples = [...]
examples ==
  << << "G","D","P"," ","b","y"," ","c","o","u","n","t","r","y"," ","2","0","2","4" >>,
     << "P","o","p","u","l","a","t","i","o","n"," ","d","e","n","s","i","t","y"," ",
        "g","l","o","b","a","l" >>,
     << "C","l","i","m","a","t","e"," ","z","o","n","e","s"," ","w","o","r","l","d","w","i","d","e" >>,
     << "G","l","o","b","a","l"," ","i","n","t","e","r","n","e","t"," ","u","s","a","g","e" >> >>

\* const keywords = [...]
keywords ==
  << << "p","o","p","u","l","a","t","i","o","n" >>, << "G","D","P" >>,
     << "g","r","o","w","t","h" >>, << "d","e","n","s","i","t","y" >>,
     << "h","e","a","t","m","a","p" >>, << "c","h","o","r","o","p","l","e","t","h" >>,
     << "v","i","s","u","a","l","i","z","e" >>, << "s","h","o","w" >>,
     << "c","o","m","p","a","r","e" >>, << "g","l","o","b","a","l" >>,
     << "r","e","g","i","o","n","a","l" >> >>

\* e.target.value of a change event: what the textarea holds after the user
\* typed or pasted, a run of letters followed by the beginning of a word.  The
\* browser does not limit it: the textarea has no maxLength attribute.
TypedValues ==
  { [i \in 1..n |-> "x"] \o SubSeq(w, 1, k) :
      n \in { 0, MaxLength - MaxTail, MaxLength + 1 },
      w \in { << " ","p","o","p","u" >>, << " ","G","D","P"," " >>, << "g","l","o","b","a" >> },
      k \in 0..MaxTail }

\* prompt.split(' '): the index of the last space of the text, 0 without one;
\* the last word is what follows it
lastSpace(text) ==
  IF \E i \in 1..Len(text) : text[i] = " "
    THEN CHOOSE i \in 1..Len(text) :
           text[i] = " " /\ \A j \in (i + 1)..Len(text) : text[j] # " "
    ELSE 0

lastWord(text) == toLowerCase(SubSeq(text, lastSpace(text) + 1, Len(text)))

\* the effect on [prompt]: the keywords that start with the last word and are
\* not the last word, at most three, when the last word has two characters or more
autocomplete(text) ==
  IF text = << >> \/ Len(lastWord(text)) <= 1
    THEN << >>
    ELSE slice(SelectSeq(keywords,
                 LAMBDA k : /\ Len(k) >= Len(lastWord(text))
                            /\ SubSeq(k, 1, Len(lastWord(text))) = lastWord(text)
                            /\ k # lastWord(text)), MaxSuggestions)

promptFrame == << loadVars, viewVars, selectedFeatureId, appVars, searchVars, dragVars,
                 dataVars, uploadVars, styleVars, renderVars >>

\* onFocus of the textarea
FocusPrompt ==
  /\ activeTab = "prompt" /\ ~promptHasFocus
  /\ promptHasFocus' = TRUE
  /\ isFocused' = TRUE
  /\ UNCHANGED << prompt, autocompleteSuggestions, blurTimeouts, promptFrame >>

\* onBlur of the textarea: setTimeout(() => setIsFocused(false), 200)
BlurPrompt ==
  /\ activeTab = "prompt" /\ promptHasFocus /\ blurTimeouts < MaxTimeouts
  /\ promptHasFocus' = FALSE
  /\ blurTimeouts' = blurTimeouts + 1
  /\ UNCHANGED << prompt, isFocused, autocompleteSuggestions, promptFrame >>

\* a timer of onBlur runs
BlurTimeout ==
  /\ blurTimeouts > 0
  /\ blurTimeouts' = blurTimeouts - 1
  /\ isFocused' = FALSE
  /\ UNCHANGED << prompt, autocompleteSuggestions, promptHasFocus, promptFrame >>

\* onChange of the textarea: setPrompt(e.target.value.slice(0, maxLength)),
\* then the effect on [prompt]
ChangePrompt(value) ==
  /\ activeTab = "prompt" /\ promptHasFocus
  /\ prompt' = slice(value, MaxLength)
  /\ autocompleteSuggestions' = autocomplete(prompt')
  /\ UNCHANGED << isFocused, promptHasFocus, blurTimeouts, promptFrame >>

\* onClick of an example button, which does not hold the focus of the textarea
handleExampleClick(i) ==
  /\ activeTab = "prompt" /\ ~promptHasFocus
  /\ prompt' = examples[i]
  /\ autocompleteSuggestions' = autocomplete(prompt')
  /\ UNCHANGED << isFocused, promptHasFocus, blurTimeouts, promptFrame >>

\* onMouseDown of a suggestion of the dropdown, which is drawn while isFocused
\* holds and a suggestion exists.  The last word is replaced by the suggestion
\* and a space; the textarea is focused, which fires onFocus if it was not.
handleAutocompleteClick(i) ==
  /\ activeTab = "prompt" /\ isFocused
  /\ i \in 1..Len(autocompleteSuggestions)
  /\ prompt' = SubSeq(prompt, 1, lastSpace(prompt)) \o autocompleteSuggestions[i] \o << " " >>
  /\ autocompleteSuggestions' = autocomplete(prompt')
  /\ promptHasFocus' = TRUE
  /\ isFocused' = TRUE
  /\ UNCHANGED << blurTimeouts, promptFrame >>

PromptNext ==
  \/ FocusPrompt
  \/ BlurPrompt
  \/ BlurTimeout
  \/ \E value \in TypedValues : ChangePrompt(value)
  \/ \E i \in 1..Len(examples) : handleExampleClick(i)
  \/ \E i \in 1..MaxSuggestions : handleAutocompleteClick(i)

PromptSpec == Init /\ [][PromptNext]_vars

----------------------------------------------------------------------------
(* View transform: claims *)

C2_ResetReachesIdentity ==
  /\ (completed.op = "reset" /\ active.op = "none") => transform = Identity
  /\ (active.op = "reset" /\ active.from = Identity) => transform = Identity

\* reset() has run to its end from the transform focus(f1) had reached
C2_Witness ==
  /\ completed.op = "reset" /\ active.op = "none" /\ pending.op = "none"
  /\ completed.from = FocusTransform("f1", dimensions)
  /\ completed.from # Identity
  /\ transform = Identity

\* C3 as stated: a request issued while an earlier animation is in flight
\* interrupts it (the earlier animation never reaches its end), and the transform
\* settles at the target of the latest request.
C3_Original ==
  /\ [][(active.op # "none" /\ pending.op # "none") => completed' = completed]_vars
  /\ []((active.op = "none" /\ pending.op = "none" /\ issued > 0)
          => (completed.id = issued /\ transform = completed.to))

\* C3 amended: a request issued while an earlier animation is in flight takes
\* effect on the next animation frame: the earlier animation is interrupted there
\* unless that frame is its last, only the latest request's animation runs on, and
\* the transform settles at the target of the latest request.
C3_LastRequestWins ==
  /\ [][(active.op # "none" /\ pending.op # "none" /\ active.frame + 1 < AnimFrames)
          => completed' = completed]_vars
  /\ [][(pending.op # "none" /\ active' # active) => active'.id = pending.id]_vars
  /\ []((active.op # "none" /\ pending.op = "none") => active.id = issued)
  /\ []((active.op = "none" /\ pending.op = "none" /\ issued > 0)
          => (completed.id = issued /\ transform = completed.to))

\* the second request runs from the frame at which it interrupted the first
C3_Witness ==
  /\ active.id = 2 /\ active.op = "reset"
  /\ completed = NoAnim
  /\ active.from # Identity

----------------------------------------------------------------------------
(* Selection and focus: claims *)

\* what focusOnFeature(f) hands to the zoom behaviour, when one is installed
FocusRequest(f) == [op |-> "focus", factor |-> 0, feature |-> f,
                    to |-> FocusTransform(f, dimensions),
                    extent |-> dimensions, id |-> issued + 1]

\* what resetView() hands to the zoom behaviour, when one is installed
ResetRequest == [op |-> "reset", factor |-> 0, feature |-> NoFeature, to |-> Identity,
                 extent |-> dimensions, id |-> issued + 1]

\* C4: a click on a feature outside placement mode, from either selection state,
\* makes that feature the selected one and issues focus(feature) (the transition
\* is scheduled when a zoom behaviour is installed); the empty-space handler does
\* not run for the same click: no reset is scheduled and nothing is deselected.
C4_FeatureClickFocuses ==
  [][\A f \in Features :
       ((\E p \in ClickPoints : ClickFeature(f, p, MaxPlaced)) /\ ~isAddingAnnotation)
       => /\ selectedFeatureId' = f
          /\ IF zoomBehavior
             THEN pending' = FocusRequest(f) /\ issued' = issued + 1
             ELSE UNCHANGED << pending, issued >>
          /\ UNCHANGED << transform, active, completed, annotations, isAddingAnnotation >>
    ]_vars

\* f1 clicked while f2 was selected and focused
C4_Witness ==
  /\ selectedFeatureId = "f1" /\ ~isAddingAnnotation
  /\ pending.op = "focus" /\ pending.feature = "f1"
  /\ completed.op = "focus" /\ completed.feature = "f2"

\* C5: a click on empty map space outside placement mode clears the selection
\* and issues reset() when a feature is selected (the transition is scheduled when
\* a zoom behaviour is installed), and changes neither the selection nor the
\* transform when nothing is selected.
C5_EmptyClickResets ==
  [][((\E p \in ClickPoints : ClickEmptySpace(p, MaxPlaced)) /\ ~isAddingAnnotation)
       => IF selectedFeatureId # NoFeature
          THEN /\ selectedFeatureId' = NoFeature
               /\ IF zoomBehavior
                  THEN pending' = ResetRequest /\ issued' = issued + 1
                  ELSE UNCHANGED << pending, issued >>
               /\ UNCHANGED << transform, active, completed, annotations >>
          ELSE UNCHANGED << selectedFeatureId, viewVars, annotations >>
    ]_vars

\* the selection was cleared at the transform focus(f1) had reached
C5_Witness ==
  /\ selectedFeatureId = NoFeature /\ ~isAddingAnnotation
  /\ pending.op = "reset"
  /\ completed.op = "focus" /\ completed.feature = "f1"
  /\ transform = completed.to /\ transform # Identity

\* C6: a double click on a feature makes it the selected feature and issues
\* focus(feature) (the transition is scheduled when a zoom behaviour is
\* installed), whatever is selected and whether or not placement mode is on.
C6_DoubleClickFocuses ==
  [][\A f \in Features :
       DoubleClickFeature(f)
       => /\ selectedFeatureId' = f
          /\ IF zoomBehavior
             THEN pending' = FocusRequest(f) /\ issued' = issued + 1
             ELSE UNCHANGED << pending, issued >>
          /\ UNCHANGED << transform, active, completed, annotations, isAddingAnnotation >>
    ]_vars

\* f2 double-clicked in placement mode while f1 was selected and focused
C6_Witness ==
  /\ isAddingAnnotation /\ annotations = << >>
  /\ selectedFeatureId = "f2"
  /\ pending.op = "focus" /\ pending.feature = "f2"
  /\ completed.op = "focus" /\ completed.feature = "f1"

----------------------------------------------------------------------------
(* Annotations: claims *)

\* C7: every add creates an annotation whose identifier differs from those
\* already in the collection: identifiers are pairwise distinct in every
\* reachable state, however close in time two placements are.
C7_IdentifiersDistinct ==
  \A i, j \in 1..Len(annotations) : i # j => annotations[i].id # annotations[j].id

\* the store operation a StoreSpec step applies
LastOp == history'[Len(history')]
Applied == Len(history') = Len(history) + 1

\* C8: update, move and delete applied to an identifier that is not in the
\* collection leave the collection unchanged: same entries, same order, same
\* contents.
C8_AbsentIdIsNoOp ==
  [][(/\ Applied
      /\ LastOp.op \in {"update", "move", "delete"}
      /\ LastOp.id \notin AnnotationIds(annotations))
       => annotations' = annotations]_vars

\* two annotations stand after a delete of an identifier neither of them has
C8_Witness ==
  /\ Len(history) = 3 /\ Len(annotations) = 2
  /\ history[3].op = "delete"
  /\ history[3].id \notin { history[1].id, history[2].id }

\* the positions of the entries delete(id) keeps
KeptPositions(anns, id) == { i \in 1..Len(anns) : anns[i].id # id }

\* the n-th of them
KeptAt(anns, id, n) ==
  CHOOSE i \in KeptPositions(anns, id) :
    Cardinality({ j \in KeptPositions(anns, id) : j <= i }) = n

\* C9: delete(id) removes the annotation with that identifier and keeps every
\* other annotation, in order; from the empty collection, add, then move and then
\* delete of the same identifier leave the collection empty.
C9_DeleteRemovesOnlyThatId ==
  /\ [][(Applied /\ LastOp.op = "delete")
          => /\ LastOp.id \notin AnnotationIds(annotations')
             /\ Len(annotations') = Cardinality(KeptPositions(annotations, LastOp.id))
             /\ \A n \in 1..Len(annotations') :
                  annotations'[n] = annotations[KeptAt(annotations, LastOp.id, n)]]_vars
  /\ []((/\ Len(history) = 3
         /\ history[1].op = "add" /\ history[2].op = "move" /\ history[3].op = "delete"
         /\ history[2].id = history[1].id /\ history[3].id = history[1].id)
          => annotations = << >>)

\* add(x = 10, y = 20, text = "A"), move(id, 30, 40), delete(id)
C9_Witness ==
  /\ history = << Op("add", "1", 10, 20, "A"), Op("move", "1", 30, 40, ""),
                  Op("delete", "1", 0, 0, "") >>
  /\ annotations = << >>

\* C10: update(id, text) on an identifier in the collection replaces the text of
\* the annotation with that identifier only: its identifier and position, every
\* annotation with another identifier, and the order are unchanged.
C10_UpdateReplacesTextOnly ==
  [][(Applied /\ LastOp.op = "update" /\ LastOp.id \in AnnotationIds(annotations))
       => /\ Len(annotations') = Len(annotations)
          /\ \A i \in 1..Len(annotations) :
               IF annotations[i].id = LastOp.id
               THEN annotations'[i] = [id |-> annotations[i].id, x |-> annotations[i].x,
                                       y |-> annotations[i].y, text |-> LastOp.text]
               ELSE annotations'[i] = annotations[i]]_vars

\* of two annotations, the first has the new text and the second its old one
C10_Witness ==
  /\ Len(history) = 3 /\ Len(annotations) = 2
  /\ history[3] = Op("update", "1", 0, 0, "B")
  /\ annotations[1].id = "1" /\ annotations[1].text = "B"
  /\ annotations[2].id = "2" /\ annotations[2].text = "A"

\* C11: dragging an annotation (mouse down on it, then a mouse movement while it
\* is the dragged one) moves it: its stored position becomes the map position
\* under the pointer, as move(id, x, y) makes it; its text and every other
\* annotation are unchanged.
C11_DragMovesAnnotation ==
  [][(/\ draggingAnnotationId \in AnnotationIds(annotations)
      /\ \E p \in PointerPositions : MouseMove(p)
      /\ pointer' # pointer)
       => LET c == Invert(transform, pointer')
          IN annotations' = moveAnnotation(annotations, draggingAnnotationId, c.x, c.y)
    ]_vars

----------------------------------------------------------------------------
(* Search: claims *)

\* two characters are the same letter, whatever their case
SameLetter(a, b) == a = b \/ LowerChar(a) = b \/ a = LowerChar(b)

\* the name contains the query as a substring, letters compared without case
ContainsIgnoringCase(name, query) ==
  \E at \in 0..(Len(name) - Len(query)) :
    \A j \in 1..Len(query) : SameLetter(name[at + j], query[j])

\* the positions of the feature list whose display name contains the query
MatchingPositions(list, query) ==
  { i \in 1..Len(list) : ContainsIgnoringCase(list[i].name, query) }

\* the n-th of them, in the order of the list
MatchAt(list, query, n) ==
  CHOOSE i \in MatchingPositions(list, query) :
    Cardinality({ j \in MatchingPositions(list, query) : j <= i }) = n

\* C12: for a query longer than one character, handleSearchInput sets the results
\* to the first five (or all, if fewer) features of the feature list whose display
\* name contains the query without regard to case, in the order of the list:
\* nothing that does not match is listed and no more than five are.
C12_SearchListsFirstFiveMatches ==
  [][\A val \in Queries :
       (SearchInput(val) /\ Len(val) > 1)
       => /\ Len(searchResults') = Min(5, Cardinality(MatchingPositions(geoData, val)))
          /\ \A n \in 1..Len(searchResults') :
               searchResults'[n] = geoData[MatchAt(geoData, val, n)]
    ]_vars

\* six features match "nI" and the first five are listed; the query and the
\* names differ in case
C12_Witness ==
  /\ searchQuery = << "n", "I" >> /\ isSearchActive
  /\ Len(geoData) = 6
  /\ geoData[1].name = NameUni /\ geoData[2].name = NameNiu
  /\ Len(searchResults) = 5
  /\ \A n \in 1..5 : searchResults[n] = geoData[n]

\* C13: selecting a search result sets the query text to the feature's name,
\* closes the dropdown, makes the feature the selected one and issues
\* focus(feature) (the transition is scheduled when a zoom behaviour is installed).
C13_SelectingResultFocuses ==
  [][\A i \in 1..MaxResults :
       SelectSearchResult(i)
       => LET f == searchResults[i]
          IN /\ searchQuery' = f.name
             /\ ~isSearchActive'
             /\ selectedFeatureId' = f.id
             /\ IF zoomBehavior
                THEN pending' = FocusRequest(f.id) /\ issued' = issued + 1
                ELSE UNCHANGED << pending, issued >>
             /\ UNCHANGED << transform, active, completed, searchResults >>
    ]_vars

\* the second result of the search for "un" was selected
C13_Witness ==
  /\ Len(geoData) = 3 /\ geoData[1].name = NameUni /\ geoData[2].name = NameNiu
  /\ geoData[3].name = NameUni
  /\ Len(searchResults) = 2 /\ searchResults[2] = geoData[3]
  /\ searchQuery = NameUni /\ ~isSearchActive
  /\ selectedFeatureId = "f3"
  /\ pending.op = "focus" /\ pending.feature = "f3"

----------------------------------------------------------------------------
(* Dataset analysis: claims *)

HasZero(values) == \E i \in 1..Len(values) : values[i] = 0

\* C14: after the fix action on a dataset whose health is "warning" because it
\* holds zero values, no entry of the resulting dataset is zero and the health
\* check that follows returns "good", whatever the dataset's size and mean.
C14_FixClearsZerosAndWarning ==
  [][(FixData /\ HasZero(mapData.values))
       => (~HasZero(mapData'.values) /\ dataHealth' = "good")]_vars

\* C15: the fix action replaces every entry that is exactly zero by the
\* arithmetic mean of all values of the dataset before the fix (the value v with
\* v * count = sum) and leaves every other entry, the keys, the metric and the
\* unit as they were.
C15_FixWritesTheMean ==
  [][FixData
       => /\ mapData'.metric = mapData.metric /\ mapData'.unit = mapData.unit
          /\ Len(mapData'.values) = Len(mapData.values)
          /\ \A i \in 1..Len(mapData.values) :
               IF mapData.values[i] = 0
               THEN mapData'.values[i] * Len(mapData.values) = Sum(mapData.values)
               ELSE mapData'.values[i] = mapData.values[i]
    ]_vars

\* C16: with a dataset loaded and the health check run, dataHealth is "warning"
\* exactly when some value is zero or the dataset has fewer than 20 values, and
\* "good" otherwise.
C16_HealthFlag ==
  mapData # NoData
    => /\ dataHealth \in { "good", "warning" }
       /\ dataHealth = "warning" <=> (HasZero(mapData.values) \/ Len(mapData.values) < 20)

\* a dataset of exactly 20 values, none of them zero, is "good"
C16_Witness ==
  /\ mapData # NoData /\ Len(mapData.values) = 20 /\ ~HasZero(mapData.values)
  /\ mapData.values[1] = -1
  /\ dataHealth = "good"

\* the cards of the suggestion list with the given id
Cards(id) == { i \in 1..Len(smartSuggestions) : smartSuggestions[i].id = id }

\* C17: for every loaded dataset the suggestion list holds two or three cards:
\* the title-rename card always, one palette card recommending 'sunset' when
\* max - min > 1000 and 'ocean' otherwise, and the classification-method card
\* exactly when the dataset has more than 50 values.
C17_SuggestionCards ==
  mapData # NoData
    => LET values == mapData.values
           wide == \E i, j \in 1..Len(values) : values[i] - values[j] > 1000
       IN /\ Len(smartSuggestions) \in { 2, 3 }
          /\ Cardinality(Cards("title")) = 1
          /\ Cardinality(Cards("palette")) = 1
          /\ \A i \in Cards("palette") :
               smartSuggestions[i].to = IF wide THEN << "sunset" >> ELSE << "ocean" >>
          /\ Cardinality(Cards("class")) = IF Len(values) > 50 THEN 1 ELSE 0
          /\ Len(smartSuggestions) =
               Cardinality(Cards("title") \cup Cards("palette") \cup Cards("class"))

\* 50 values spanning exactly 1000: two cards, palette 'ocean'
C17_Witness ==
  /\ mapData # NoData /\ Len(mapData.values) = 50
  /\ MaxOf(mapData.values) = 1001 /\ MinOf(mapData.values) = 1
  /\ Len(smartSuggestions) = 2
  /\ smartSuggestions[2].to = << "ocean" >>

\* C18: whenever the dataset changes (load, fix, clear) the insights, the
\* suggestions and the health flag are recomputed from the new dataset: they are
\* what the analysis of the current dataset gives and nothing of an earlier one,
\* and the empty list, the empty list and "good" when there is no dataset.
C18_DerivedFromCurrentDataset ==
  IF mapData = NoData
  THEN insights = << >> /\ smartSuggestions = << >> /\ dataHealth = "good"
  ELSE /\ insights = generateInsights(mapData)
       /\ smartSuggestions = generateSuggestions(mapData)
       /\ dataHealth = checkDataHealth(mapData)

\* the dataset (0, 1001, -1) after the fix: the range and the key of the maximum
\* are those of the fixed dataset
C18_Witness ==
  /\ mapData # NoData /\ mapData.values = << 333, 1001, -1 >>
  /\ insights[1].value = << -1, 1001 >> /\ insights[2].value = << 2 >>
  /\ dataHealth = "warning"

----------------------------------------------------------------------------
(* Loading and upload: claims *)

\* C19: the topology is fetched once per session and never again: whether the
\* fetch succeeds or fails loading eventually becomes false, and once it has
\* failed the feature list is empty in every later state.
C19_FetchedOnceNoRetry ==
  /\ <>(~loading)
  /\ [](topologyFetch.count = 1)
  /\ [](topologyFetch.outcome = "failed" => (~loading /\ geoData = << >>))
  /\ [][topologyFetch.outcome # "pending" => topologyFetch' = topologyFetch]_vars

\* after the failure the view was resized and a search typed: nothing is listed
C19_Witness ==
  /\ topologyFetch.outcome = "failed" /\ ~loading /\ geoData = << >>
  /\ zoomBehavior /\ dimensions # InitialDimensions
  /\ searchQuery = << "u", "n" >> /\ isSearchActive /\ searchResults = << >>

\* the file's extension: what follows the last dot of its name, if it has a dot
HasSupportedExtension(file) ==
  /\ Len(file.name) > 1
  /\ toLowerCase(file.name[Len(file.name)]) \in { ExtCsv, ExtJson, ExtXlsx, ExtXls }

\* C20: submitting (by drop or file picker) a file whose MIME type and extension
\* are both outside the supported set (CSV, JSON, XLSX, XLS) is rejected:
\* uploadedFile is not set to that file and the validation message is set.
C20_UnsupportedFileRejected ==
  [][\A file \in Files :
       (/\ SubmitFile(file) \/ SubmitFileSimplified(file)
        /\ file.type \notin validTypes
        /\ ~HasSupportedExtension(file))
       => (uploadedFile' # file /\ uploadError' = UnsupportedMessage)
    ]_vars

----------------------------------------------------------------------------
(* Focus transform: claims *)

\* at scale k (in hundredths) the box b takes at most 90% of the viewport d in
\* both dimensions
FitsAt(k, b, d) ==
  /\ k * (b.x1 - b.x0) <= FitNumerator * d.width
  /\ k * (b.y1 - b.y0) <= FitNumerator * d.height

\* the transform t maps the centre of the box b to the centre of the viewport d,
\* up to the hundredth of a pixel the model's division by two drops
CentresOn(t, b, d) ==
  /\ 2 * (50 * d.width - t.x) - t.k * (b.x0 + b.x1) \in { 0 - 1, 0 }
  /\ 2 * (50 * d.height - t.y) - t.k * (b.y0 + b.y1) \in { 0 - 1, 0 }

\* C24 as claimed: focus(feature) targets a transform under which the feature's
\* bounding box fits within 90% of the viewport in both dimensions and the box's
\* centre is mapped to the viewport's centre, with the scale in [1, 8].
C24_Original ==
  pending.op = "focus" =>
    LET b == BoundsOf(pending.feature)
    IN /\ FitsAt(pending.to.k, b, pending.extent)
       /\ CentresOn(pending.to, b, pending.extent)
       /\ pending.to.k >= MinScale /\ pending.to.k <= MaxScale

\* C24, amended: focus(feature) targets a transform whose scale is in [1, 8] and
\* which maps the box's centre to the viewport's centre; when the box fits
\* within 90% of the viewport at scale 1, it fits at the target scale, which is
\* the greatest such scale up to 8; when it does not, the target scale is 1.
C24_FocusFitsOrStaysAtOne ==
  pending.op = "focus" =>
    LET b == BoundsOf(pending.feature)
        d == pending.extent
        k == pending.to.k
    IN /\ k >= MinScale /\ k <= MaxScale
       /\ CentresOn(pending.to, b, d)
       /\ FitsAt(MinScale, b, d) => /\ FitsAt(k, b, d)
                                    /\ k = MaxScale \/ ~FitsAt(k + 1, b, d)
       /\ ~FitsAt(MinScale, b, d) => k = MinScale

\* a focus is scheduled on a box that fits at a scale strictly between 1 and 8
C24_Witness ==
  /\ pending.op = "focus"
  /\ pending.to.k > MinScale /\ pending.to.k < MaxScale
  /\ FitsAt(pending.to.k, BoundsOf(pending.feature), pending.extent)

----------------------------------------------------------------------------
(* Placement: claims *)

\* the map coordinate c, in hundredths of a pixel, is the pointer position p
\* inverted through the transform t, up to the hundredth the division drops
InvertedThrough(c, p, t) ==
  /\ c.x * t.k <= (100 * p.px - t.x) * 100 /\ (100 * p.px - t.x) * 100 < (c.x + 1) * t.k
  /\ c.y * t.k <= (100 * p.py - t.y) * 100 /\ (100 * p.py - t.y) * 100 < (c.y + 1) * t.k

\* C25: in placement mode a single click on the map, on a feature or on empty
\* space, appends exactly one annotation with the text 'New Annotation' at the
\* click position inverted through the current zoom transform, leaves the
\* selected feature and the transform as they are and turns placement mode off.
C25_PlacementClickAddsOne ==
  [][\A p \in ClickPoints :
       (/\ isAddingAnnotation
        /\ \/ ClickEmptySpace(p, MaxPlaced)
           \/ \E f \in Features : ClickFeature(f, p, MaxPlaced))
       => /\ Len(annotations') = Len(annotations) + 1
          /\ SubSeq(annotations', 1, Len(annotations)) = annotations
          /\ annotations'[Len(annotations')].text = NewAnnotationText
          /\ InvertedThrough(annotations'[Len(annotations')], p, transform)
          /\ UNCHANGED << selectedFeatureId, transform, pending, active >>
          /\ ~isAddingAnnotation'
    ]_vars

\* an annotation was placed by a click while the map was zoomed and a feature
\* selected: it is not where the pointer was on the screen
C25_Witness ==
  /\ Len(annotations) = 1 /\ ~isAddingAnnotation
  /\ annotations[1].text = NewAnnotationText
  /\ transform.k > MinScale
  /\ selectedFeatureId # NoFeature
  /\ \E p \in ClickPoints :
       /\ InvertedThrough(annotations[1], p, transform)
       /\ annotations[1].x # 100 * p.px

----------------------------------------------------------------------------
(* Zoom behaviour: claims *)

\* C26: once the topology load has finished (loading is false, so the svg is
\* rendered), a zoom behaviour is installed on the svg, whichever of the
\* resize-observer callback and the fetch completion came first and without a
\* later resize: zoomBy, reset and focus then have a behaviour to act through.
C26_ZoomInstalledOnceLoaded == ~loading => zoomBehavior

----------------------------------------------------------------------------
(* Annotation handlers of one render: claims *)

\* the collection after the store operation op
ApplyOp(anns, op) ==
  CASE op.op = "add"    -> addAnnotation(anns, [id |-> op.id, x |-> op.x, y |-> op.y,
                                                text |-> op.text])
    [] op.op = "update" -> updateAnnotation(anns, op.id, op.text)
    [] op.op = "delete" -> deleteAnnotation(anns, op.id)
    [] OTHER            -> moveAnnotation(anns, op.id, op.x, op.y)

\* C27: when two store operations are dispatched from the same render, both
\* reading the same annotations, the collection that results is the one the
\* second operation makes of what the first made: the first is not lost.
C27_BothOperationsApplied ==
  Len(dispatched) = 2
    => annotations = ApplyOp(ApplyOp(rendered, dispatched[1]), dispatched[2])

----------------------------------------------------------------------------
(* Search dropdown: claims *)

\* C28: whenever the dropdown is shown (isSearchActive is true and searchResults
\* is not empty), the query is longer than one character and the name of every
\* listed feature contains the query, whatever the case of the letters; also
\* after a result was selected or the query cleared and the box focused again.
C28_DropdownMatchesQuery ==
  (isSearchActive /\ searchResults # << >>)
    => /\ Len(searchQuery) > 1
       /\ \A i \in 1..Len(searchResults) :
            ContainsIgnoringCase(searchResults[i].name, searchQuery)

----------------------------------------------------------------------------
(* Prompt: claims *)

\* C29: the prompt never holds more than 500 characters, whatever was typed
\* and whichever examples and autocomplete suggestions were clicked.
C29_PromptWithinMaxLength == Len(prompt) <= MaxLength

----------------------------------------------------------------------------
(* Dragging: claims *)

\* C30: in every reachable state draggingAnnotationId is null or the identifier
\* of an annotation of the collection: it never names a deleted annotation.
C30_DraggedAnnotationExists ==
  draggingAnnotationId = NoAnnotation
    \/ draggingAnnotationId \in AnnotationIds(annotations)

----------------------------------------------------------------------------
(* Colour scale: claims *)

\* a dataset is loaded and the style is one the Sidebar offers
OfferedStyle ==
  /\ mapData # NoData
  /\ mapStyle.palette \in OfferedPalettes
  /\ mapStyle.classesCount \in OfferedCounts

\* the colours of a list, as a set
ColoursOf(colors) == { colors[k] : k \in 1..Len(colors) }

\* the values channel c takes in a list of colours
ChannelValues(colors, c) == { colors[k][c] : k \in 1..Len(colors) }

\* C21 as claimed: for every value v of the loaded dataset, every palette and
\* every class count the Sidebar offers, the colour the scale assigns to v is one
\* of the colours of the palette's colour list.
C21_Original ==
  OfferedStyle =>
    \A i \in 1..Len(mapData.values) :
      scaleColor(colorScale, mapData.values[i]) \in ColoursOf(PALETTES[mapStyle.palette])

\* C21, amended: for every value v of the loaded dataset, every palette and every
\* class count the Sidebar offers, the scale has classesCount colours, the first
\* of which is the palette's first colour and the last its last; the colour of v
\* is one of them, each of its channels lies between the least and the greatest
\* value that channel takes in the palette, and the greatest value of the
\* dataset gets the palette's last colour.
C21_ColourSampledFromPalette ==
  OfferedStyle =>
    LET colors == PALETTES[mapStyle.palette]
        scale == colorScale
    IN /\ scale.outcome = "scale"
       /\ Len(scale.range) = mapStyle.classesCount
       /\ scale.range[1] = colors[1]
       /\ scale.range[Len(scale.range)] = colors[Len(colors)]
       /\ \A i \in 1..Len(mapData.values) :
            LET v == mapData.values[i]
                col == scaleColor(scale, v)
            IN /\ col \in ColoursOf(scale.range)
               /\ \A c \in 1..3 :
                    /\ \E lo \in ChannelValues(colors, c) : lo <= col[c]
                    /\ \E hi \in ChannelValues(colors, c) : col[c] <= hi
               /\ v = MaxOf(mapData.values) => col = colors[Len(colors)]

\* a dataset of three different values is coloured with an offered style, and
\* one of its values gets a colour that is not in the palette's list
C21_Witness ==
  /\ OfferedStyle
  /\ Cardinality({ mapData.values[i] : i \in 1..Len(mapData.values) }) = 3
  /\ \E i \in 1..Len(mapData.values) :
       scaleColor(colorScale, mapData.values[i]) \notin ColoursOf(PALETTES[mapStyle.palette])
  /\ \E i \in 1..Len(mapData.values) :
       scaleColor(colorScale, mapData.values[i]) = PALETTES[mapStyle.palette][1]

\* the class of x, counted from 0, when the observed range of the values is
\* cut into n classes of equal width (the greatest value belongs to the last)
EqualIntervalClass(values, n, x) ==
  Min(n - 1, ((x - MinOf(values)) * n) \div (MaxOf(values) - MinOf(values)))

\* C22: with the classification method 'equal', the colour scale cuts the observed
\* range of the values into classesCount classes of equal width, and the class
\* of a value never decreases as the value grows.
C22_EqualIntervalClasses ==
  (/\ OfferedStyle
   /\ mapStyle.classificationMethod = "equal"
   /\ mapData.values # << >>
   /\ MinOf(mapData.values) < MaxOf(mapData.values))
  => /\ \A i \in 1..Len(mapData.values) :
          classOf(colorScale, mapData.values[i])
            = EqualIntervalClass(mapData.values, mapStyle.classesCount, mapData.values[i])
     /\ \A i, j \in 1..Len(mapData.values) :
          mapData.values[i] <= mapData.values[j]
            => classOf(colorScale, mapData.values[i]) <= classOf(colorScale, mapData.values[j])

\* C23: building the scale with a class count below 1, or above the nine classes
\* the Sidebar takes a palette to resolve, fails with an error: no colour scale
\* is produced from such a count.
C23_OutOfRangeCountFails ==
  (/\ mapData # NoData
   /\ mapStyle.classesCount < 1 \/ mapStyle.classesCount > MaxClasses)
  => colorScale.outcome # "scale"

----------------------------------------------------------------------------
(* Shape of the state *)

TypeOK ==
  /\ loading \in BOOLEAN
  /\ zoomBehavior \in BOOLEAN
  /\ FeatureIds(geoData) \subseteq { "f" \o ToString(i) : i \in 1..MaxFeatures }
  /\ dimensions \in Viewports
  /\ selectedFeatureId \in FeatureIds(geoData) \cup {NoFeature}
  /\ isAddingAnnotation \in BOOLEAN
  /\ issued \in 0..MaxRequests
  /\ now \in 0..MaxClock
  /\ Len(history) <= MaxHistory
  /\ pointer \in PointerPositions \cup {[px |-> 0, py |-> 0]}
  /\ draggingAnnotationId \in STRING
  /\ topologyFetch.count = 1 /\ topologyFetch.outcome \in { "pending", "loaded", "failed" }
  /\ loading <=> topologyFetch.outcome = "pending"
  /\ isSearchActive \in BOOLEAN
  /\ Len(searchResults) <= MaxResults
  /\ activeTab \in Tabs
  /\ dataHealth \in { "good", "warning" }
  /\ uploadedFile \in Files \cup { NoFile }
  /\ uploadError \in { NoError, UnsupportedMessage }
  /\ mapStyle \in MapStyles
  /\ Len(rendered) <= MaxAnnotations + MaxBatch
  /\ Len(dispatched) <= MaxBatch
  /\ isFocused \in BOOLEAN
  /\ promptHasFocus \in BOOLEAN
  /\ blurTimeouts \in 0..MaxTimeouts
  /\ autocompleteSuggestions = autocomplete(prompt)

====
